---- MODULE Spec2Model ----
(***************************************************************************)
(* StandardMCPBinding (run_arxiv_mcp_example.py): a pool of MCP servers    *)
(* reached through one background asyncio loop.  Foreground threads call   *)
(* discover_tools, execute_tool and close; every coroutine they submit     *)
(* runs on the loop thread and is interleaved with the others at its       *)
(* await points.                                                           *)
(*                                                                         *)
(* Strings that the code inspects (aliases, tool names, qualified names)   *)
(* are sequences of one-character strings.  A backend is the environment:  *)
(* each awaited request either completes, raises, or is still pending      *)
(* when the caller's wait expires.                                         *)
(***************************************************************************)
EXTENDS Integers, Sequences, FiniteSets, TLC

\* ------------------------------------------------------------------ bounds

\* public operations made one after the other by a single thread
MaxCalls == 3

\* public operations made by each thread when several threads call
MaxEach == 1

\* waits of foreground threads that expire (future.result, Event.wait)
MaxTimeouts == 1

\* the runs in which every wait may expire: calls per thread, and waits that
\* may expire (a call over one alias has at most three waits)
LiveEach == 1
LiveTimeouts == 6

\* foreground threads
Threads == {"t1", "t2"}
FirstThread == "t1"
NoThread == "none"

\* ------------------------------------------------------------------ names

TOOL_NAME_SEPARATOR == <<":", ":">>

\* Python: sep in s
Contains(sep, s) ==
    \E i \in 1..(Len(s) - Len(sep) + 1) : SubSeq(s, i, i + Len(sep) - 1) = sep

\* Python: s.find(sep) + 1 (0 when absent)
Find(sep, s) ==
    IF Contains(sep, s)
    THEN CHOOSE i \in 1..(Len(s) - Len(sep) + 1) :
            /\ SubSeq(s, i, i + Len(sep) - 1) = sep
            /\ \A j \in 1..(i - 1) : SubSeq(s, j, j + Len(sep) - 1) # sep
    ELSE 0

\* a split that skips one character of the separator only
SplitOnceShort(sep, s) ==
    IF Find(sep, s) = 0
    THEN <<s>>
    ELSE << SubSeq(s, 1, Find(sep, s) - 1),
            SubSeq(s, Find(sep, s) + 1, Len(s)) >>

\* Python: s.split(sep, 1), one or two parts
SplitOnce(sep, s) ==
    IF Find(sep, s) = 0
    THEN <<s>>
    ELSE << SubSeq(s, 1, Find(sep, s) - 1),
            SubSeq(s, Find(sep, s) + Len(sep), Len(s)) >>

\* a prefix written with a single colon
QualifiedNameOneColon(alias, tool) == alias \o <<":">> \o tool

\* f"{alias}{TOOL_NAME_SEPARATOR}{tool_obj.name}"
QualifiedName(alias, tool) == alias \o TOOL_NAME_SEPARATOR \o tool

\* a test for a single colon instead of the separator
HasSingleColon(name) == Contains(<<":">>, name)

\* TOOL_NAME_SEPARATOR not in tool_name_with_alias
HasSeparator(name) == Contains(TOOL_NAME_SEPARATOR, name)

\* ------------------------------------------------------------- environment

AliasA == <<"a">>
AliasB == <<"b">>
AliasC == <<"c">>
AliasD == <<"d">>
AliasE == <<"e">>
ToolT == <<"t">>
ToolU == <<"u">>
\* an alias and a tool name that hold the separator
AliasX == <<"x">>
AliasXY == <<"x", ":", ":", "y">>
ToolYT == <<"y", ":", ":", "t">>

\* what a backend answers to list_tools (tool_obj.name of each entry)
ToolsOf(alias) ==
    IF alias = AliasB THEN <<ToolT, ToolU>>
    ELSE IF alias = AliasX THEN <<ToolYT>>
    ELSE <<ToolT>>

\* what the callers pass to execute_tool: the name, and params that
\* json.dumps accepts or rejects
ExecuteInputs ==
    { << QualifiedName(AliasA, ToolT), "json" >>,
      << QualifiedName(AliasB, ToolT), "json" >>,
      << QualifiedName(AliasB, ToolT), "unserializable" >>,
      << <<"a", ":", "t">>, "json" >>,
      << <<"u", ":", ":", "t">>, "json" >> }

\* what the callers pass when the registry has the aliases x and x::y: the
\* name discover_tools gives to tool t of x::y (and to tool y::t of x)
NameInputs == { << QualifiedName(AliasXY, ToolT), "json" >> }

\* the text json.dumps gives for the arguments {"x": 1}, one token per element
EchoText == << "{", "\"x\"", ":", " ", "1", "}" >>

\* content parts of a call_tool answer: TextContent (whose text may be None)
\* and parts of another type
TextPart(text) == [type |-> "text", has_text |-> TRUE, text |-> text]
NoneTextPart == [type |-> "text", has_text |-> FALSE, text |-> <<>>]
ImagePart == [type |-> "image", has_text |-> TRUE, text |-> <<"i">>]

\* what a backend answers to call_tool: a CallToolResult with its isError
\* flag and its content
Responses ==
    { [isError |-> FALSE, content |-> <<>>],
      [isError |-> FALSE, content |-> << TextPart(EchoText) >>],
      [isError |-> FALSE, content |-> << TextPart(<<"1">>), ImagePart, NoneTextPart,
                                         TextPart(<<"2">>) >>],
      [isError |-> FALSE, content |-> << TextPart(<<"o", "k">>) >>],
      [isError |-> TRUE, content |-> << TextPart(<<"n", "o">>) >>] }

NoResponse == [isError |-> FALSE, content |-> <<>>]

\* ------------------------------------------------------------ configuration

\* mcp_binding_config: a dict (an ordered list of entries per section), or
\* an empty / missing one (truthy = FALSE)
CfgEmpty ==
    [truthy |-> FALSE, initial_servers |-> <<>>, remote_servers |-> <<>>]

\* an initial_servers entry: whether it has the key "command", and the command
StdioEntry(alias, has_command, command) ==
    [alias |-> alias, has_command |-> has_command, command |-> command]

\* a remote_servers entry: whether the value is a str
RemoteEntry(alias, is_str) == [alias |-> alias, is_str |-> is_str]

CfgNoValidServer ==
    [truthy |-> TRUE,
     initial_servers |-> << StdioEntry(AliasC, FALSE, <<>>) >>,
     remote_servers |-> << RemoteEntry(AliasD, FALSE) >>]

CfgTwoServers ==
    [truthy |-> TRUE,
     initial_servers |-> << StdioEntry(AliasA, TRUE, <<"python">>),
                            StdioEntry(AliasC, FALSE, <<>>) >>,
     remote_servers |-> << RemoteEntry(AliasB, TRUE),
                           RemoteEntry(AliasD, FALSE) >>]

\* "command": [] in an entry
CfgEmptyCommand ==
    [truthy |-> TRUE,
     initial_servers |-> << StdioEntry(AliasE, TRUE, <<>>) >>,
     remote_servers |-> << RemoteEntry(AliasD, FALSE) >>]

Configs == {CfgEmpty, CfgNoValidServer, CfgTwoServers, CfgEmptyCommand}

\* two stdio servers, the alias of one holding the separator
CfgSeparatorInAlias ==
    [truthy |-> TRUE,
     initial_servers |-> << StdioEntry(AliasX, TRUE, <<"python">>),
                            StdioEntry(AliasXY, TRUE, <<"python">>) >>,
     remote_servers |-> <<>>]

\* the configurations of the runs about names
ConfigsNames == {CfgSeparatorInAlias}

\* one stdio server
CfgOneServer ==
    [truthy |-> TRUE,
     initial_servers |-> << StdioEntry(AliasA, TRUE, <<"python">>) >>,
     remote_servers |-> <<>>]

\* the configuration of the runs in which every wait may expire
ConfigsLive == {CfgOneServer}

Range(s) == { s[i] : i \in 1..Len(s) }

IsStdioEntry(e) == e.has_command
IsRemoteEntry(e) == e.is_str

\* aliases kept by the two loops of __init__, in dict insertion order
StdioAliases(cfg) ==
    LET kept == SelectSeq(cfg.initial_servers, IsStdioEntry)
    IN  [i \in 1..Len(kept) |-> kept[i].alias]

RemoteAliases(cfg) ==
    LET kept == SelectSeq(cfg.remote_servers, IsRemoteEntry)
    IN  [i \in 1..Len(kept) |-> kept[i].alias]

RegistryOrder(cfg) ==
    LET fresh(a) == a \notin Range(StdioAliases(cfg))
    IN  StdioAliases(cfg) \o SelectSeq(RemoteAliases(cfg), fresh)

NoSession == 0

\* one entry of self.servers
ServerInfo(type) ==
    [type |-> type, initialized |-> FALSE, session |-> NoSession,
     exit_stack |-> NoSession, process |-> NoSession]

Registry(cfg) ==
    [a \in Range(RegistryOrder(cfg)) |->
        IF a \in Range(RemoteAliases(cfg)) THEN ServerInfo("http")
        ELSE ServerInfo("stdio")]

\* ------------------------------------------------------------------- state

VARIABLES
    budget,           \* the waits that may expire in the run
    config,           \* self.config (the empty one when __init__ returned early)
    configured,       \* __init__ ran past its two early returns (self.servers exists)
    order,            \* list(self.servers.keys())
    servers,          \* self.servers
    lock,             \* holder of servers[a]["initializing_lock"]
    cache,            \* self._discovered_tools_cache (the "name" of each entry)
    loop,             \* self._loop / self._thread / self._loop_started_event
    stop_requested,   \* loop.stop has been posted with call_soon_threadsafe
    tasks,            \* coroutines submitted with run_coroutine_threadsafe
    open,             \* <<alias, sid>>: transports/sessions opened and not closed
    attempts,         \* per alias: connects started past the "initialized" check
    pc, op, loc, ret, \* per foreground thread: position, call, locals, outcome
    quota,            \* per thread: public operations it may still start
    ntimeouts,        \* waits that have expired so far
    ens_returned,     \* per alias: some _ensure_initialized_sync call has ended
    sequential,       \* per alias: a call was entered after another had ended
    ever_ready,       \* aliases that have been initialized at some time
    cache_ok,         \* aliases whose list_tools succeeded in the refresh that
                      \* built the present cache
    discovered,       \* names returned so far by discover_tools
    call_log          \* call_tool requests sent: name asked, session, tool

vars == << budget, config, configured, order, servers, lock, cache, loop, stop_requested, tasks,
           open, attempts, pc, op, loc, ret, quota, ntimeouts, ens_returned,
           sequential, ever_ready, cache_ok, discovered, call_log >>

Aliases == DOMAIN servers

\* a future is held by the thread that waits for it; one whose wait expired
\* stays on the loop in a slot of its own
OrphanSlots == <<"o1", "o2", "o3", "o4", "o5", "o6">>
OrphanCount == IF budget < Len(OrphanSlots) THEN budget ELSE Len(OrphanSlots)
Orphans == { OrphanSlots[k] : k \in 1..OrphanCount }
TaskIds == Threads \cup Orphans

\* values of "output" (an int, a dict or a str); NoValue is None
NoValue == [type |-> "none", n |-> 0, s |-> <<>>]
\* the dict execute_tool returns; NoVal where none is returned
NoVal == [status_code |-> 0, error |-> "", cause |-> "none", output |-> NoValue]

\* what a coroutine raised (exc), or returned: a bool (val) or a dict (result)
NoResult == [exc |-> "none", val |-> FALSE, result |-> NoVal]
\* what a coroutine keeps between two steps: the position close has reached,
\* the state of the fetches of a refresh, the call of a dispatch
NoAux ==
    [idx |-> 0, fetch |-> <<>>, name |-> <<>>, tool |-> <<>>, params |-> "json",
     response |-> NoResponse]
NoTask ==
    [kind |-> "free", st |-> "", alias |-> <<>>, sid |-> NoSession,
     done |-> FALSE, res |-> NoResult, aux |-> NoAux]

NoOp == [kind |-> "none", name |-> <<>>, params |-> "json", force |-> FALSE]
\* "response": the call_tool answer the outcome of execute_tool was built from
NoLoc ==
    [alias |-> <<>>, tool |-> <<>>, idx |-> 0, failed |-> {}, refreshed |-> FALSE,
     response |-> NoResponse]
\* the outcome of a call: the exception raised (exc), the list discover_tools
\* returned (names), the dict execute_tool returned (val)
\* "ok": the aliases whose list_tools had succeeded when discover_tools ended
NoRet == [kind |-> "none", exc |-> "none", names |-> <<>>, val |-> NoVal, ok |-> {}]

\* ---------------------------------------------------------------- __init__

\* the callers: one thread making MaxCalls calls, or every thread making
\* MaxEach calls
Quotas ==
    { [t \in Threads |-> IF t = FirstThread THEN MaxCalls ELSE 0],
      [t \in Threads |-> MaxEach] }

\* a constructor that starts the loop thread whatever the registry holds
StartAlways(registry) == "created"

\* lines 112-115: "if self.servers: self._start_event_loop_thread()", the
\* only call of _start_event_loop_thread
StartIfServers(registry) == IF registry # <<>> THEN "created" ELSE "none"

\* the callers of the runs in which every wait may expire: every thread
\* making LiveEach calls
QuotasLive == { [t \in Threads |-> LiveEach] }

\* the state after __init__, for a configuration of cfgs, callers qs and b
\* waits that may expire
InitWith(cfgs, qs, b) ==
    \E cfg \in cfgs, MCP_LIBRARY_AVAILABLE \in BOOLEAN, q \in qs :
        /\ budget = b
        /\ configured = (MCP_LIBRARY_AVAILABLE /\ cfg.truthy)
        /\ config = IF configured THEN cfg ELSE CfgEmpty
        /\ order = IF configured THEN RegistryOrder(cfg) ELSE <<>>
        /\ servers = IF configured THEN Registry(cfg) ELSE <<>>
        /\ lock = [a \in DOMAIN servers |-> NoThread]
        /\ cache = <<>>
        /\ loop = StartIfServers(order)
        /\ stop_requested = FALSE
        /\ tasks = [i \in TaskIds |-> NoTask]
        /\ open = {}
        /\ attempts = [a \in DOMAIN servers |-> 0]
        /\ pc = [t \in Threads |-> "idle"]
        /\ op = [t \in Threads |-> NoOp]
        /\ loc = [t \in Threads |-> NoLoc]
        /\ ret = [t \in Threads |-> NoRet]
        /\ quota = q
        /\ ntimeouts = 0
        /\ ens_returned = [a \in DOMAIN servers |-> FALSE]
        /\ sequential = [a \in DOMAIN servers |-> FALSE]
        /\ ever_ready = {}
        /\ cache_ok = {}
        /\ discovered = {}
        /\ call_log = {}

Init == InitWith(Configs, Quotas, MaxTimeouts)

\* the runs about names: no wait expires
InitNames == InitWith(ConfigsNames, QuotasLive, 0)

\* every wait of every call may expire
InitLive == InitWith(ConfigsLive, QuotasLive, LiveTimeouts)

\* ------------------------------------------------------- the loop thread

\* _run_loop_forever: self._loop_started_event.set()
LoopSignal ==
    /\ loop = "created"
    /\ loop' = "signalled"
    /\ UNCHANGED << budget, config, configured, order, servers, lock, cache, stop_requested, tasks,
                    open, attempts, pc, op, loc, ret, quota, ntimeouts,
                    ens_returned, sequential, ever_ready, cache_ok,
                    discovered, call_log >>

\* _run_loop_forever: self._loop.run_forever() starts running
LoopRun ==
    /\ loop = "signalled"
    /\ loop' = "running"
    /\ UNCHANGED << budget, config, configured, order, servers, lock, cache, stop_requested, tasks,
                    open, attempts, pc, op, loc, ret, quota, ntimeouts,
                    ens_returned, sequential, ever_ready, cache_ok,
                    discovered, call_log >>

\* the posted loop.stop runs; run_forever returns and the loop is closed
LoopStop ==
    /\ loop = "running"
    /\ stop_requested
    /\ loop' = "stopped"
    /\ UNCHANGED << budget, config, configured, order, servers, lock, cache, stop_requested, tasks,
                    open, attempts, pc, op, loc, ret, quota, ntimeouts,
                    ens_returned, sequential, ever_ready, cache_ok,
                    discovered, call_log >>

\* self._loop and self._loop.is_running()
LoopRunning == loop = "running"

\* self._loop_started_event.is_set()
LoopStartedEvent == loop \in {"signalled", "running", "stopped"}

\* --------------------------------------------------------------- _run_async

\* asyncio.run_coroutine_threadsafe(coro, self._loop): the coroutine, not started
NewTask(kind, alias, aux) ==
    [kind |-> kind, st |-> "start", alias |-> alias, sid |-> NoSession,
     done |-> FALSE, res |-> NoResult, aux |-> aux]

\* the coroutine has returned or raised; a result nobody waits for is dropped
Finished(i, exc, val) ==
    IF i \in Orphans THEN NoTask
    ELSE [tasks[i] EXCEPT !.done = TRUE, !.st = "done",
                          !.res = [exc |-> exc, val |-> val, result |-> NoVal]]

\* the coroutine has returned the dict result
FinishedWith(i, result) ==
    IF i \in Orphans THEN NoTask
    ELSE [tasks[i] EXCEPT !.done = TRUE, !.st = "done",
                          !.res = [exc |-> "none", val |-> FALSE, result |-> result]]

FreeOrphans == { k \in 1..OrphanCount : tasks[OrphanSlots[k]].kind = "free" }
FreeOrphan == OrphanSlots[CHOOSE k \in FreeOrphans : \A j \in FreeOrphans : k <= j]

\* a wait may expire (the bound on expired waits is not used up)
MayExpire == ntimeouts < budget

\* the coroutine cannot end by itself: it is suspended in an await on a
\* backend (connect or aclose, list_tools, call_tool), or its loop has stopped
Suspended(task) ==
    \/ loop # "running"
    \/ task.kind = "init" /\ task.st \in {"connect", "rollback"}
    \/ task.kind = "refresh" /\ task.st = "fetch"
    \/ task.kind = "exec" /\ task.st = "call"
    \/ task.kind = "close" /\ task.st = "closing"

\* a wait whose expiry cancels the coroutine
AwaitedCancel(t) ==
    /\ tasks[t].done \/ (MayExpire /\ Suspended(tasks[t]))
    /\ ntimeouts' = IF tasks[t].done THEN ntimeouts ELSE ntimeouts + 1
    /\ tasks' = [tasks EXCEPT ![t] = NoTask]

\* a wait without a timeout
AwaitedForever(t) ==
    /\ tasks[t].done
    /\ ntimeouts' = ntimeouts
    /\ tasks' = [tasks EXCEPT ![t] = NoTask]

\* future.result(timeout): the result is taken, or the wait expires on a
\* suspended coroutine, which goes on without its caller
Awaited(t) ==
    /\ tasks[t].done \/ (MayExpire /\ Suspended(tasks[t]))
    /\ ntimeouts' = IF tasks[t].done THEN ntimeouts ELSE ntimeouts + 1
    /\ tasks' = IF tasks[t].done THEN [tasks EXCEPT ![t] = NoTask]
                ELSE [tasks EXCEPT ![t] = NoTask, ![FreeOrphan] = tasks[t]]

\* ------------------------------------------------------------ result shapes

ErrorResult(code, error, cause) ==
    [status_code |-> code, error |-> error, cause |-> cause, output |-> NoValue]

SuccessResult(output) ==
    [status_code |-> 200, error |-> "", cause |-> "none", output |-> output]

Returned(t, kind, val) ==
    /\ pc' = [pc EXCEPT ![t] = "done"]
    /\ ret' = [ret EXCEPT ![t] = [NoRet EXCEPT !.kind = kind, !.val = val]]

Raised(t, exc) ==
    /\ pc' = [pc EXCEPT ![t] = "done"]
    /\ ret' = [ret EXCEPT ![t] = [NoRet EXCEPT !.kind = "raise", !.exc = exc]]

\* a thread is between two calls; the threads being alike, the first call
\* of a run is made by the first of them
CanStart(t) ==
    /\ pc[t] \in {"idle", "done"}
    /\ quota[t] > 0
    /\ t = FirstThread \/ op[FirstThread].kind # "none"

\* --------------------------------------------------- _ensure_initialized_sync

\* with server_info["initializing_lock"]: the lock can be taken
LockFree(a) == lock[a] = NoThread

\* the record of a call of _ensure_initialized_sync(a) being entered
EnsureEntered(a) ==
    sequential' = [sequential EXCEPT ![a] = @ \/ ens_returned[a]]

\* _ensure_initialized_sync returns (exc = "none") or raises exc: control goes
\* back to discover_tools (lines 253-257, which swallow exc and go on with the
\* next alias) or to execute_tool (lines 292-297, which turn exc into a result)
EnsureExit(t, exc) ==
    LET a == loc[t].alias
        failed == IF exc = "none" THEN loc[t].failed ELSE loc[t].failed \cup {a}
    IN  /\ ens_returned' = [ens_returned EXCEPT ![a] = TRUE]
        /\ IF op[t].kind = "discover"
           THEN IF loc[t].idx < Len(order)
                THEN /\ pc' = [pc EXCEPT ![t] = "ens_wait"]
                     /\ loc' = [loc EXCEPT ![t].alias = order[loc[t].idx + 1],
                                           ![t].idx = @ + 1, ![t].failed = failed]
                     /\ EnsureEntered(order[loc[t].idx + 1])
                     /\ ret' = ret
                ELSE /\ pc' = [pc EXCEPT ![t] = "d_refresh"]
                     /\ loc' = [loc EXCEPT ![t].failed = failed]
                     /\ UNCHANGED << sequential, ret >>
           ELSE /\ loc' = [loc EXCEPT ![t].failed = failed]
                /\ UNCHANGED sequential
                /\ IF exc = "none"
                   THEN /\ pc' = [pc EXCEPT ![t] = "x_submit"]
                        /\ ret' = ret
                   ELSE Returned(t, "result", ErrorResult(500, "Failed to run tool", exc))

\* lines 205-206: the session read once the lock is released
SessionCheck(t) ==
    IF servers[loc[t].alias].session = NoSession
    THEN EnsureExit(t, "ConnectionError")
    ELSE EnsureExit(t, "none")

\* self._wait_for_loop(): the start signal (or 5 s), then the is_running check
EnsWait(t) ==
    /\ pc[t] = "ens_wait"
    /\ LoopStartedEvent \/ MayExpire
    /\ ntimeouts' = IF LoopStartedEvent THEN ntimeouts ELSE ntimeouts + 1
    /\ IF LoopStartedEvent /\ LoopRunning
       THEN /\ pc' = [pc EXCEPT ![t] = "ens_lock"]
            /\ UNCHANGED << loc, ret, ens_returned, sequential >>
       ELSE EnsureExit(t, "RuntimeError")
    /\ UNCHANGED << budget, config, configured, order, servers, lock, cache, loop, stop_requested,
                    tasks, open, attempts, op, quota, ever_ready,
                    cache_ok, discovered, call_log >>

\* lines 200-202: take the lock, read "initialized", submit the connect;
\* when initialized the lock is released at once and line 205 follows
EnsLock(t) ==
    LET a == loc[t].alias
    IN  /\ pc[t] = "ens_lock"
        /\ LockFree(a)
        /\ IF servers[a].initialized
           THEN /\ SessionCheck(t)
                /\ UNCHANGED << lock, tasks >>
           ELSE IF LoopRunning
                THEN /\ tasks' = [tasks EXCEPT ![t] = NewTask("init", a, NoAux)]
                     /\ lock' = [lock EXCEPT ![a] = t]
                     /\ pc' = [pc EXCEPT ![t] = "ens_await"]
                     /\ UNCHANGED << loc, ret, ens_returned, sequential >>
                ELSE /\ EnsureExit(t, "RuntimeError")
                     /\ UNCHANGED << lock, tasks >>
        /\ UNCHANGED << budget, config, configured, order, servers, cache, loop, stop_requested,
                        open, attempts, op, quota, ntimeouts, ever_ready,
                        cache_ok, discovered, call_log >>

\* lines 202-206: future.result(timeout), the lock is released, "success"
\* is tested, then the session
EnsAwait(t) ==
    LET a == loc[t].alias
        task == tasks[t]
    IN  /\ pc[t] = "ens_await"
        /\ Awaited(t)
        /\ lock' = [lock EXCEPT ![a] = NoThread]
        /\ IF ~task.done
           THEN EnsureExit(t, "TimeoutError")
           ELSE IF task.res.exc # "none"
                THEN EnsureExit(t, task.res.exc)
                ELSE IF task.res.val
                     THEN SessionCheck(t)
                     ELSE EnsureExit(t, "ConnectionError")
        /\ UNCHANGED << budget, config, configured, order, servers, cache, loop, stop_requested,
                        open, attempts, op, quota, ever_ready, cache_ok,
                        discovered, call_log >>

\* ------------------------------------------------------------- discover_tools

\* line 259: force_refresh or not self._discovered_tools_cache
NeedsRefresh(force) == force \/ cache = <<>>

\* line 262: return self._discovered_tools_cache
ReturnCache(t) ==
    /\ pc' = [pc EXCEPT ![t] = "done"]
    /\ ret' = [ret EXCEPT ![t] = [NoRet EXCEPT !.kind = "list", !.names = cache, !.ok = cache_ok]]
    /\ discovered' = discovered \cup Range(cache)

\* lines 250-255: the call, "if not self.servers", the first alias
StartDiscover(t, force) ==
    /\ CanStart(t)
    /\ quota' = [quota EXCEPT ![t] = @ - 1]
    /\ op' = [op EXCEPT ![t] = [NoOp EXCEPT !.kind = "discover", !.force = force]]
    /\ IF ~configured
       THEN /\ Raised(t, "AttributeError")
            /\ loc' = [loc EXCEPT ![t] = NoLoc]
            /\ UNCHANGED sequential
       ELSE IF order = <<>>
            THEN /\ Returned(t, "list", NoVal)
                 /\ loc' = [loc EXCEPT ![t] = NoLoc]
                 /\ UNCHANGED sequential
            ELSE /\ pc' = [pc EXCEPT ![t] = "ens_wait"]
                 /\ loc' = [loc EXCEPT ![t] = [NoLoc EXCEPT !.alias = order[1], !.idx = 1]]
                 /\ ret' = [ret EXCEPT ![t] = NoRet]
                 /\ EnsureEntered(order[1])
    /\ UNCHANGED << budget, config, configured, order, servers, lock, cache, loop, stop_requested,
                    tasks, open, attempts, ntimeouts, ens_returned, ever_ready, cache_ok, discovered, call_log >>

\* lines 259-262: the cache test, then the submission of the refresh or
\* the return of the cache
DRefresh(t) ==
    /\ pc[t] = "d_refresh"
    /\ IF NeedsRefresh(op[t].force)
       THEN IF LoopRunning
            THEN /\ tasks' = [tasks EXCEPT ![t] =
                        NewTask("refresh", <<>>,
                                [NoAux EXCEPT !.fetch =
                                    [a \in Aliases |-> [st |-> "start", sid |-> NoSession]]])]
                 /\ pc' = [pc EXCEPT ![t] = "d_await"]
                 /\ UNCHANGED << ret, discovered >>
            ELSE /\ Raised(t, "RuntimeError")
                 /\ UNCHANGED << tasks, discovered >>
       ELSE /\ ReturnCache(t)
            /\ UNCHANGED tasks
    /\ UNCHANGED << budget, config, configured, order, servers, lock, cache, loop, stop_requested,
                    open, attempts, op, loc, quota, ntimeouts, ens_returned,
                    sequential, ever_ready, cache_ok, call_log >>

\* lines 260-262: future.result(timeout_per_server * len(self.servers)),
\* then the return of the cache
DAwait(t) ==
    /\ pc[t] = "d_await"
    /\ Awaited(t)
    /\ IF tasks[t].done
       THEN /\ ReturnCache(t)
            /\ loc' = [loc EXCEPT ![t].refreshed = TRUE]
       ELSE /\ pc' = [pc EXCEPT ![t] = "done"]
            /\ ret' = [ret EXCEPT ![t] =
                    [NoRet EXCEPT !.kind = "raise", !.exc = "TimeoutError",
                       !.ok = { a \in Aliases : tasks[t].aux.fetch[a].st = "ok" }]]
            /\ UNCHANGED << loc, discovered >>
    /\ UNCHANGED << budget, config, configured, order, servers, lock, cache, loop, stop_requested,
                    open, attempts, op, quota, ens_returned, sequential, ever_ready, cache_ok, call_log >>

\* --------------------------------------------------------------- execute_tool

\* a dispatcher that sends the call of an unknown alias to the first server
StartExecuteFallback(t, name, params) ==
    LET parts == SplitOnce(TOOL_NAME_SEPARATOR, name)
    IN  /\ CanStart(t)
        /\ quota' = [quota EXCEPT ![t] = @ - 1]
        /\ op' = [op EXCEPT ![t] = [NoOp EXCEPT !.kind = "execute", !.name = name,
                                                !.params = params]]
        /\ IF ~HasSeparator(name)
           THEN /\ Returned(t, "result",
                        ErrorResult(400, "Invalid tool name format", "none"))
                /\ loc' = [loc EXCEPT ![t] = NoLoc]
                /\ UNCHANGED sequential
           ELSE IF Len(parts) # 2
                THEN /\ Raised(t, "ValueError")
                     /\ loc' = [loc EXCEPT ![t] = NoLoc]
                     /\ UNCHANGED sequential
                ELSE IF ~configured
                     THEN /\ Raised(t, "AttributeError")
                          /\ loc' = [loc EXCEPT ![t] = NoLoc]
                          /\ UNCHANGED sequential
                     ELSE IF order = <<>>
                          THEN /\ Returned(t, "result",
                                    ErrorResult(400, "Unknown server alias", "none"))
                               /\ loc' = [loc EXCEPT ![t] = NoLoc]
                               /\ UNCHANGED sequential
                          ELSE LET alias == IF parts[1] \in Aliases THEN parts[1]
                                            ELSE order[1]
                               IN  /\ pc' = [pc EXCEPT ![t] = "ens_wait"]
                                   /\ loc' = [loc EXCEPT ![t] =
                                        [NoLoc EXCEPT !.alias = alias, !.tool = parts[2]]]
                                   /\ ret' = [ret EXCEPT ![t] = NoRet]
                                   /\ EnsureEntered(alias)
        /\ UNCHANGED << budget, config, configured, order, servers, lock, cache, loop, stop_requested,
                        tasks, open, attempts, ntimeouts, ens_returned, ever_ready, cache_ok, discovered, call_log >>

\* lines 282-293: the separator test, the split, the registry test
StartExecute(t, name, params) ==
    LET parts == SplitOnce(TOOL_NAME_SEPARATOR, name)
    IN  /\ CanStart(t)
        /\ quota' = [quota EXCEPT ![t] = @ - 1]
        /\ op' = [op EXCEPT ![t] = [NoOp EXCEPT !.kind = "execute", !.name = name,
                                                !.params = params]]
        /\ IF ~HasSeparator(name)
           THEN /\ Returned(t, "result",
                        ErrorResult(400, "Invalid tool name format", "none"))
                /\ loc' = [loc EXCEPT ![t] = NoLoc]
                /\ UNCHANGED sequential
           ELSE IF Len(parts) # 2
                THEN /\ Raised(t, "ValueError")
                     /\ loc' = [loc EXCEPT ![t] = NoLoc]
                     /\ UNCHANGED sequential
                ELSE IF ~configured
                     THEN /\ Raised(t, "AttributeError")
                          /\ loc' = [loc EXCEPT ![t] = NoLoc]
                          /\ UNCHANGED sequential
                     ELSE IF parts[1] \notin Aliases
                          THEN /\ Returned(t, "result",
                                    ErrorResult(400, "Unknown server alias", "none"))
                               /\ loc' = [loc EXCEPT ![t] = NoLoc]
                               /\ UNCHANGED sequential
                          ELSE /\ pc' = [pc EXCEPT ![t] = "ens_wait"]
                               /\ loc' = [loc EXCEPT ![t] =
                                    [NoLoc EXCEPT !.alias = parts[1], !.tool = parts[2]]]
                               /\ ret' = [ret EXCEPT ![t] = NoRet]
                               /\ EnsureEntered(parts[1])
        /\ UNCHANGED << budget, config, configured, order, servers, lock, cache, loop, stop_requested,
                        tasks, open, attempts, ntimeouts, ens_returned, ever_ready, cache_ok, discovered, call_log >>

\* line 294: the submission of _execute_tool_async
XSubmit(t) ==
    /\ pc[t] = "x_submit"
    /\ IF LoopRunning
       THEN /\ tasks' = [tasks EXCEPT ![t] =
                    NewTask("exec", loc[t].alias,
                            [NoAux EXCEPT !.name = op[t].name, !.tool = loc[t].tool,
                                          !.params = op[t].params])]
            /\ pc' = [pc EXCEPT ![t] = "x_await"]
            /\ ret' = ret
       ELSE /\ Returned(t, "result", ErrorResult(500, "Failed to run tool", "RuntimeError"))
            /\ UNCHANGED tasks
    /\ UNCHANGED << budget, config, configured, order, servers, lock, cache, loop, stop_requested,
                    open, attempts, op, loc, quota, ntimeouts, ens_returned,
                    sequential, ever_ready, cache_ok, discovered, call_log >>

\* lines 294-297: future.result(timeout) and the except clause
XAwait(t) ==
    LET task == tasks[t]
    IN  /\ pc[t] = "x_await"
        /\ Awaited(t)
        /\ IF ~task.done
           THEN Returned(t, "result", ErrorResult(500, "Failed to run tool", "TimeoutError"))
           ELSE IF task.res.exc # "none"
                THEN Returned(t, "result",
                              ErrorResult(500, "Failed to run tool", task.res.exc))
                ELSE Returned(t, "result", task.res.result)
        /\ loc' = [loc EXCEPT ![t].response =
                        IF task.done THEN task.aux.response ELSE NoResponse]
        /\ UNCHANGED << budget, config, configured, order, servers, lock, cache, loop, stop_requested,
                        open, attempts, op, quota, ens_returned, sequential,
                        ever_ready, cache_ok, discovered, call_log >>

\* ---------------------------------------------------------------------- close

\* lines 299-320: the loop test and the submission of _close_all_connections;
\* with no running loop, the join of a thread that is not alive, and the return
StartClose(t) ==
    /\ CanStart(t)
    /\ quota' = [quota EXCEPT ![t] = @ - 1]
    /\ op' = [op EXCEPT ![t] = [NoOp EXCEPT !.kind = "close"]]
    /\ loc' = [loc EXCEPT ![t] = NoLoc]
    /\ IF ~configured
       THEN /\ Raised(t, "AttributeError")
            /\ tasks' = tasks
       ELSE IF LoopRunning
            THEN /\ tasks' = [tasks EXCEPT ![t] = NewTask("close", <<>>, NoAux)]
                 /\ pc' = [pc EXCEPT ![t] = "c_await"]
                 /\ ret' = [ret EXCEPT ![t] = NoRet]
            ELSE /\ Returned(t, "void", NoVal)
                 /\ tasks' = tasks
    /\ UNCHANGED << budget, config, configured, order, servers, lock, cache, loop, stop_requested,
                    open, attempts, ntimeouts, ens_returned, sequential, ever_ready, cache_ok, discovered, call_log >>

\* lines 313-320: future.result(10.0), then "finally" posts loop.stop
\* (call_soon_threadsafe raises RuntimeError on a closed loop), then the
\* bounded join and the return
CAwait(t) ==
    LET task == tasks[t]
        exc == IF task.done THEN task.res.exc ELSE "TimeoutError"
    IN  /\ pc[t] = "c_await"
        /\ Awaited(t)
        /\ IF loop = "stopped"
           THEN /\ Raised(t, "RuntimeError")
                /\ UNCHANGED stop_requested
           ELSE /\ stop_requested' = TRUE
                /\ IF exc # "none"
                   THEN Raised(t, exc)
                   ELSE Returned(t, "void", NoVal)
        /\ UNCHANGED << budget, config, configured, order, servers, lock, cache, loop, open, attempts,
                        op, loc, quota, ens_returned, sequential, ever_ready, cache_ok, discovered, call_log >>

\* ------------------------------------------------ _initialize_connection_async

IsTask(i, kind, st) ==
    /\ LoopRunning
    /\ tasks[i].kind = kind
    /\ tasks[i].st = st

\* a rollback that leaves the descriptor as the attempt left it
ResetInfoKeep(info) == info

\* line 193: server_info.update({...})
ResetInfo(info) ==
    [info EXCEPT !.session = NoSession, !.exit_stack = NoSession,
                 !.initialized = FALSE, !.process = NoSession]

\* a success that sets the flag and the exit stack but not the session
ReadyInfoNoSession(info, sid) ==
    [info EXCEPT !.exit_stack = sid, !.initialized = TRUE]

\* lines 180-182
ReadyInfo(info, sid) ==
    [info EXCEPT !.session = sid, !.exit_stack = sid, !.initialized = TRUE]

\* lines 148-154: the "initialized" test, then a new AsyncExitStack
InitStart(i) ==
    LET a == tasks[i].alias
    IN  /\ IsTask(i, "init", "start")
        /\ IF servers[a].initialized
           THEN /\ tasks' = [tasks EXCEPT ![i] = Finished(i, "none", TRUE)]
                /\ UNCHANGED attempts
           ELSE /\ attempts' = [attempts EXCEPT ![a] = @ + 1]
                /\ tasks' = [tasks EXCEPT ![i].st = "connect",
                                          ![i].sid = attempts[a] + 1]
        /\ UNCHANGED << budget, config, configured, order, servers, lock, cache, loop, stop_requested,
                        open, pc, op, loc, ret, quota, ntimeouts, ens_returned,
                        sequential, ever_ready, cache_ok, discovered,
                        call_log >>

\* lines 164-170: subprocess_client(command=conf["command"], ...) can start a
\* process only from a command that is not empty
Startable(a) ==
    \A e \in Range(config.initial_servers) : e.alias = a => e.command # <<>>

\* lines 157-185: the awaits of the try block.  The transport is entered
\* (streamablehttp_client / subprocess_client; "process" is stored for stdio),
\* then ClientSession, then session.initialize(); the three assignments of
\* lines 180-182 follow the last await at once.  An await may raise, before
\* or after the transport is open.
InitConnect(i) ==
    LET a == tasks[i].alias
        sid == tasks[i].sid
        spawned == IF servers[a].type = "stdio"
                   THEN [servers EXCEPT ![a].process = sid]
                   ELSE servers
    IN  /\ IsTask(i, "init", "connect")
        /\ \/ /\ Startable(a)
              /\ open' = open \cup {<<a, sid>>}
              /\ servers' = [spawned EXCEPT ![a] = ReadyInfo(@, sid)]
              /\ tasks' = [tasks EXCEPT ![i] = Finished(i, "none", TRUE)]
              /\ ever_ready' = ever_ready \cup {a}
           \/ /\ tasks' = [tasks EXCEPT ![i].st = "rollback"]
              /\ UNCHANGED << open, servers, ever_ready >>
           \/ /\ Startable(a)
              /\ open' = open \cup {<<a, sid>>}
              /\ servers' = spawned
              /\ tasks' = [tasks EXCEPT ![i].st = "rollback"]
              /\ UNCHANGED ever_ready
        /\ UNCHANGED << budget, config, configured, order, lock, cache, loop, stop_requested,
                        attempts, pc, op, loc, ret, quota, ntimeouts, ens_returned,
                        sequential, cache_ok, discovered, call_log >>

\* lines 187-194: await exit_stack.aclose(), then server_info.update(...)
InitRollback(i) ==
    LET a == tasks[i].alias
    IN  /\ IsTask(i, "init", "rollback")
        /\ open' = open \ {<<a, tasks[i].sid>>}
        /\ servers' = [servers EXCEPT ![a] = ResetInfo(@)]
        /\ tasks' = [tasks EXCEPT ![i] = Finished(i, "none", FALSE)]
        /\ UNCHANGED << budget, config, configured, order, lock, cache, loop, stop_requested,
                        attempts, pc, op, loc, ret, quota, ntimeouts, ens_returned,
                        sequential, ever_ready, cache_ok, discovered,
                        call_log >>

\* ----------------------------------------------- _refresh_all_tools_cache_async

\* a dispatcher and a fetch that do not test the descriptor
NotConnectedNever(info) == FALSE

\* line 225: not server_info["initialized"] or not server_info["session"]
NotConnected(info) == ~info.initialized \/ info.session = NoSession

\* entries that keep the backend's names, without the alias prefix
ServerToolsBare(alias) == ToolsOf(alias)

\* lines 231-244: the entries built from one list_tools answer
ServerTools(alias) ==
    [k \in 1..Len(ToolsOf(alias)) |-> QualifiedName(alias, ToolsOf(alias)[k])]

\* lines 214-217: all_tools.extend(result) for each result that is a list
RECURSIVE AllTools(_, _)
AllTools(aux, k) ==
    IF k > Len(order) THEN <<>>
    ELSE (IF aux[order[k]].st = "ok" THEN ServerTools(order[k]) ELSE <<>>)
         \o AllTools(aux, k + 1)

\* a refresh that adds what it found to the cache it finds
NewCacheMerged(old, all_tools) == old \o all_tools

\* line 219: self._discovered_tools_cache = all_tools
NewCache(old, all_tools) == all_tools

\* lines 212-220: with aux the state of the fetches, gather goes on waiting
\* while one is pending; once it has every result the cache is replaced and
\* the coroutine returns
RefreshGathered(i, aux) ==
    IF \E a \in Aliases : aux[a].st = "pending"
    THEN /\ tasks' = [tasks EXCEPT ![i].st = "fetch", ![i].aux.fetch = aux]
         /\ UNCHANGED << cache, cache_ok >>
    ELSE /\ cache' = NewCache(cache, AllTools(aux, 1))
         /\ cache_ok' = { a \in Aliases : aux[a].st = "ok" }
         /\ tasks' = [tasks EXCEPT ![i] = Finished(i, "none", TRUE)]

\* lines 211-212 and 224-229: gather starts one fetch per alias; each tests
\* the descriptor and sends list_tools on the session it read, or returns []
RefreshStart(i) ==
    /\ IsTask(i, "refresh", "start")
    /\ RefreshGathered(i, [a \in Aliases |->
                              IF NotConnected(servers[a])
                              THEN [st |-> "empty", sid |-> NoSession]
                              ELSE [st |-> "pending", sid |-> servers[a].session]])
    /\ UNCHANGED << budget, config, configured, order, servers, lock, loop, stop_requested,
                    open, attempts, pc, op, loc, ret, quota, ntimeouts, ens_returned,
                    sequential, ever_ready, discovered, call_log >>

\* lines 229-248: list_tools answers (only a live session can), or raises
FetchReply(i, a) ==
    /\ IsTask(i, "refresh", "fetch")
    /\ a \in Aliases
    /\ tasks[i].aux.fetch[a].st = "pending"
    /\ \/ /\ <<a, tasks[i].aux.fetch[a].sid>> \in open
          /\ RefreshGathered(i, [tasks[i].aux.fetch EXCEPT ![a].st = "ok"])
       \/ RefreshGathered(i, [tasks[i].aux.fetch EXCEPT ![a].st = "err"])
    /\ UNCHANGED << budget, config, configured, order, servers, lock, loop, stop_requested,
                    open, attempts, pc, op, loc, ret, quota, ntimeouts, ens_returned,
                    sequential, ever_ready, discovered, call_log >>

\* --------------------------------------------------------- _execute_tool_async

\* lines 265-271: the descriptor test, json.dumps(params), call_tool is sent
ExecStart(i) ==
    LET a == tasks[i].alias
    IN  /\ IsTask(i, "exec", "start")
        /\ IF NotConnected(servers[a])
           THEN /\ tasks' = [tasks EXCEPT ![i] =
                        FinishedWith(i,
                                 ErrorResult(503, "Not connected to server", "none"))]
                /\ UNCHANGED call_log
           ELSE IF tasks[i].aux.params = "unserializable"
                THEN /\ tasks' = [tasks EXCEPT ![i] = Finished(i, "TypeError", FALSE)]
                     /\ UNCHANGED call_log
                ELSE /\ tasks' = [tasks EXCEPT ![i].st = "call",
                                               ![i].sid = servers[a].session]
                     /\ call_log' = call_log \cup
                            {[name |-> tasks[i].aux.name,
                              session |-> <<a, servers[a].session>>,
                              tool |-> tasks[i].aux.tool]}
        /\ UNCHANGED << budget, config, configured, order, servers, lock, cache, loop, stop_requested,
                        open, attempts, pc, op, loc, ret, quota, ntimeouts,
                        ens_returned, sequential, ever_ready, cache_ok,
                        discovered >>

\* line 272: p.text of every part that is a TextContent with a text
IsTextPart(p) == p.type = "text" /\ p.has_text

OutputParts(content) ==
    LET kept == SelectSeq(content, IsTextPart)
    IN  [k \in 1..Len(kept) |-> kept[k].text]

\* a join that puts nothing between the parts
RECURSIVE JoinPlain(_, _)
JoinPlain(sep, parts) ==
    IF parts = <<>> THEN <<>> ELSE Head(parts) \o JoinPlain(sep, Tail(parts))

\* Python: sep.join(parts)
RECURSIVE Join(_, _)
Join(sep, parts) ==
    IF parts = <<>> THEN <<>>
    ELSE IF Len(parts) = 1 THEN Head(parts)
    ELSE Head(parts) \o sep \o Join(sep, Tail(parts))

Whitespace == {" ", "\n"}
Digits == {"1", "2"}
DigitValue(c) == IF c = "1" THEN 1 ELSE 2

\* the text without its leading and trailing whitespace
Strip(text) ==
    LET inked == { k \in 1..Len(text) : text[k] \notin Whitespace }
    IN  IF inked = {} THEN <<>>
        ELSE SubSeq(text, CHOOSE k \in inked : \A j \in inked : k <= j,
                          CHOOSE k \in inked : \A j \in inked : k >= j)

RECURSIVE Number(_)
Number(ds) ==
    IF ds = <<>> THEN 0
    ELSE 10 * Number(SubSeq(ds, 1, Len(ds) - 1)) + DigitValue(ds[Len(ds)])

\* values of "output": an int, the dict {"x": n}, or a str
IntValue(n) == [type |-> "int", n |-> n, s |-> <<>>]
DictValue(n) == [type |-> "dict", n |-> n, s |-> <<"x">>]
StrValue(text) == [type |-> "str", n |-> 0, s |-> text]

\* json.loads(text) for the texts of the model: a number, the dict {"x": 1},
\* or JSONDecodeError (ok = FALSE)
JsonLoads(text) ==
    LET body == Strip(text)
    IN  IF body # <<>> /\ \A k \in 1..Len(body) : body[k] \in Digits
        THEN [ok |-> TRUE, value |-> IntValue(Number(body))]
        ELSE IF body = EchoText
             THEN [ok |-> TRUE, value |-> DictValue(1)]
             ELSE [ok |-> FALSE, value |-> StrValue(<<>>)]

\* lines 272-277: the result built from the answer of call_tool
NormalizeResult(response) ==
    LET combined_output_str == Join(<<"\n">>, OutputParts(response.content))
        parsed == JsonLoads(combined_output_str)
    IN  IF parsed.ok THEN SuccessResult(parsed.value)
        ELSE SuccessResult(StrValue(combined_output_str))

\* the coroutine returns the result built from response
Replied(i, response) ==
    IF i \in Orphans THEN NoTask
    ELSE [tasks[i] EXCEPT !.done = TRUE, !.st = "done",
                          !.res = [exc |-> "none", val |-> FALSE,
                                   result |-> NormalizeResult(response)],
                          !.aux.response = response]

\* a dispatcher that closes the connection when call_tool raises
ExecReplyTeardown(i) ==
    LET a == tasks[i].alias
    IN  /\ IsTask(i, "exec", "call")
        /\ \/ /\ <<a, tasks[i].sid>> \in open
              /\ \E response \in Responses :
                    tasks' = [tasks EXCEPT ![i] = Replied(i, response)]
              /\ UNCHANGED << open, servers >>
           \/ /\ tasks' = [tasks EXCEPT ![i] =
                      FinishedWith(i,
                               ErrorResult(500, "Error executing tool", "BackendError"))]
              /\ open' = open \ {<<a, tasks[i].sid>>}
              /\ servers' = [servers EXCEPT ![a] = ResetInfo(@)]
        /\ UNCHANGED << budget, config, configured, order, lock, cache, loop, stop_requested,
                        attempts, pc, op, loc, ret, quota, ntimeouts,
                        ens_returned, sequential, ever_ready, cache_ok,
                        discovered, call_log >>

\* lines 271-280: call_tool answers (only a live session can), or raises
ExecReply(i) ==
    /\ IsTask(i, "exec", "call")
    /\ \/ /\ <<tasks[i].alias, tasks[i].sid>> \in open
          /\ \E response \in Responses :
                tasks' = [tasks EXCEPT ![i] = Replied(i, response)]
       \/ tasks' = [tasks EXCEPT ![i] =
                  FinishedWith(i,
                           ErrorResult(500, "Error executing tool", "BackendError"))]
    /\ UNCHANGED << budget, config, configured, order, servers, lock, cache, loop, stop_requested,
                    open, attempts, pc, op, loc, ret, quota, ntimeouts,
                    ens_returned, sequential, ever_ready, cache_ok,
                    discovered, call_log >>

\* ------------------------------------------------------ _close_all_connections

\* lines 303-306: the aliases from position k on whose descriptor has an
\* exit stack (server_info.get("exit_stack"))
ToClose(k) == { j \in k..Len(order) : servers[order[j]].exit_stack # NoSession }

\* lines 303-306: the loop goes on, without an await, to the next alias that
\* has an exit stack and is suspended in its aclose(); with none left the
\* coroutine returns
CloseGoOn(i, k) ==
    IF ToClose(k) = {} THEN Finished(i, "none", TRUE)
    ELSE LET j == CHOOSE x \in ToClose(k) : \A y \in ToClose(k) : x <= y
         IN  [tasks[i] EXCEPT !.st = "closing", !.aux.idx = j,
                              !.sid = servers[order[j]].exit_stack]

\* lines 302-306: _close_all_connections starts; or the aclose() it awaits
\* ends, closing that exit stack's contexts, and returns or raises
CloseStep(i) ==
    /\ LoopRunning
    /\ tasks[i].kind = "close"
    /\ \/ /\ tasks[i].st = "start"
          /\ tasks' = [tasks EXCEPT ![i] = CloseGoOn(i, 1)]
          /\ UNCHANGED open
       \/ /\ tasks[i].st = "closing"
          /\ open' = open \ {<< order[tasks[i].aux.idx], tasks[i].sid >>}
          /\ \/ tasks' = [tasks EXCEPT ![i] = CloseGoOn(i, tasks[i].aux.idx + 1)]
             \/ tasks' = [tasks EXCEPT ![i] = Finished(i, "TeardownError", FALSE)]
    /\ UNCHANGED << budget, config, configured, order, servers, lock, cache, loop, stop_requested,
                    attempts, pc, op, loc, ret, quota, ntimeouts, ens_returned,
                    sequential, ever_ready, cache_ok, discovered,
                    call_log >>

\* ------------------------------------------------------------------ claims

\* a public call of thread t has ended
Ended(t, kind) == pc[t] = "done" /\ op[t].kind = kind

\* the result execute_tool gives for a name without the separator (line 286)
IsInvalidToolName(r) ==
    /\ r.kind = "result"
    /\ r.val.status_code = 400
    /\ r.val.error = "Invalid tool name format"

\* the result execute_tool gives for an alias outside the registry (line 290)
IsUnknownServer(r) ==
    /\ r.kind = "result"
    /\ r.val.status_code = 400
    /\ r.val.error = "Unknown server alias"

\* no two consecutive characters of name are "::"
NoSeparatorIn(name) ==
    \A i \in 1..(Len(name) - 1) : ~(name[i] = ":" /\ name[i + 1] = ":")

\* the characters of name before its first ':' that is followed by ':'
AliasPart(name) ==
    LET first == CHOOSE i \in 1..(Len(name) - 1) :
                    /\ name[i] = ":" /\ name[i + 1] = ":"
                    /\ \A j \in 1..(i - 1) : ~(name[j] = ":" /\ name[j + 1] = ":")
    IN  SubSeq(name, 1, first - 1)

\* alias::tool for every tool the backend of every alias of S reports
NamesOf(S) ==
    UNION { { a \o <<":", ":">> \o tl : tl \in Range(ToolsOf(a)) } : a \in S }

\* the descriptor of a is ready and its session is live
Connected(a) ==
    /\ servers[a].initialized
    /\ servers[a].session # NoSession
    /\ <<a, servers[a].session>> \in open

\* C1: execute_tool never propagates an exception: every call that has
\* ended, in whatever state of the binding it was made, has returned a
\* result object.
C1_ExecuteNeverRaises ==
    \A t \in Threads : Ended(t, "execute") => ret[t].kind = "result"

\* C2: at most one handshake: as long as no call of _ensure_initialized_sync
\* for an alias was entered after another one for it had ended (the calls
\* overlap), at most one connect attempt has gone past the "initialized"
\* test of _initialize_connection_async.
C2_OneHandshake ==
    \A a \in Aliases : ~sequential[a] => attempts[a] <= 1

\* C3 (as stated): the list a discover_tools call returns holds alias::name
\* for every tool of every alias that is connected when the call returns,
\* and no other name.
C3_CatalogOfConnected ==
    [][ \A t \in Threads :
            ( /\ pc[t] \in {"d_refresh", "d_await"}
              /\ pc'[t] = "done"
              /\ ret'[t].kind = "list" )
            => Range(ret'[t].names) = NamesOf({ a \in Aliases : Connected(a)' }) ]_vars

\* C3 (amended): the list a discover_tools call returns is the cache built by
\* the last completed refresh: it holds exactly one entry alias::name for
\* every tool of every alias whose list_tools succeeded in that refresh,
\* each of them an alias that has been connected, and no other name; it is
\* empty as long as no alias has connected.
C3_CatalogOfLastRefresh ==
    \A t \in Threads :
        (Ended(t, "discover") /\ ret[t].kind = "list") =>
            /\ Range(ret[t].names) = NamesOf(ret[t].ok)
            /\ Len(ret[t].names) = Cardinality(NamesOf(ret[t].ok))
            /\ ret[t].ok \subseteq ever_ready
            /\ ever_ready = {} => ret[t].names = <<>>

\* a forced refresh, made after an earlier call, has rebuilt the catalog of
\* both backends
C3_Witness ==
    \E t \in Threads :
        /\ Ended(t, "discover") /\ ret[t].kind = "list"
        /\ op[t].force /\ loc[t].refreshed
        /\ quota[t] <= MaxCalls - 2
        /\ \A u \in Threads \ {t} : quota[u] = 0 /\ op[u].kind = "none"
        /\ ret[t].ok = {AliasA, AliasB}
        /\ Len(ret[t].names) = 3

\* C4: error isolation in discovery: when the list_tools of backend B has
\* succeeded and another backend A has failed to connect or has not listed,
\* the discover_tools call returns a list that holds all of B's tools.
C4_ErrorIsolation ==
    \A t \in Threads : \A b \in ret[t].ok :
        ( /\ Ended(t, "discover")
          /\ \E a \in Aliases \ {b} : a \in loc[t].failed \/ a \notin ret[t].ok )
        => /\ ret[t].kind = "list"
           /\ NamesOf({b}) \subseteq Range(ret[t].names)

\* C5: discover_tools never raises because of a backend: a call that has
\* ended has returned a list, or has raised what no backend causes (the
\* AttributeError of a binding without registry, the RuntimeError of a loop
\* that does not run).
C5_DiscoverNeverRaises ==
    \A t \in Threads :
        Ended(t, "discover") =>
            \/ ret[t].kind = "list"
            \/ ret[t].exc \in {"AttributeError", "RuntimeError"}

\* C6: close() never raises: every call of close that has ended, the first
\* as the second, on a binding with or without a connected server, has
\* returned.
C6_CloseNeverRaises ==
    \A t \in Threads : Ended(t, "close") => ret[t].kind = "void"

\* C7: round trip: every name discover_tools has returned holds the
\* separator, and no execute_tool call on such a name has ended with the
\* "Invalid tool name format" result (nor with the ValueError of the split).
C7_RoundTrip ==
    /\ \A name \in discovered : ~NoSeparatorIn(name)
    /\ \A t \in Threads :
          (Ended(t, "execute") /\ op[t].name \in discovered) =>
              /\ ~IsInvalidToolName(ret[t])
              /\ ret[t].kind = "result"

\* a discovered name has been executed with success
C7_Witness ==
    \E t \in Threads :
        /\ Ended(t, "execute")
        /\ op[t].name \in discovered
        /\ ret[t].kind = "result"
        /\ ret[t].val.status_code = 200

\* C8: namespacing: a catalog built from backends a and b, which both report
\* tool t, holds the two distinct names a::t and b::t; and every call_tool
\* request sent for the name alias::tool went to a session of that alias,
\* with that tool name.
C8_Namespacing ==
    /\ \A t \in Threads :
          ( /\ Ended(t, "discover") /\ ret[t].kind = "list"
            /\ {AliasA, AliasB} \subseteq ret[t].ok )
          => \E i, j \in 1..Len(ret[t].names) :
                /\ i # j
                /\ ret[t].names[i] = AliasA \o <<":", ":">> \o ToolT
                /\ ret[t].names[j] = AliasB \o <<":", ":">> \o ToolT
    /\ \A e \in call_log :
          /\ e.name = e.session[1] \o <<":", ":">> \o e.tool
          /\ e.session[1] \in Aliases
          /\ e.session[2] \in 1..attempts[e.session[1]]
          /\ \A a \in {AliasA, AliasB} :
                e.name = a \o <<":", ":">> \o ToolT
                => e.session[1] = a /\ e.tool = ToolT

\* both names were discovered and each was sent to its own backend
C8_Witness ==
    /\ {AliasA \o <<":", ":">> \o ToolT, AliasB \o <<":", ":">> \o ToolT}
          \subseteq discovered
    /\ \E e \in call_log : e.session[1] = AliasA /\ e.tool = ToolT
    /\ \E e \in call_log : e.session[1] = AliasB /\ e.tool = ToolT

C10_UnknownServer ==
    \A t \in Threads :
        ( /\ Ended(t, "execute")
          /\ ~NoSeparatorIn(op[t].name)
          /\ AliasPart(op[t].name) \notin Aliases )
        => IsUnknownServer(ret[t])


\* a connect attempt for alias a is suspended on the loop
InFlight(a) ==
    \E i \in TaskIds :
        /\ tasks[i].kind = "init" /\ tasks[i].alias = a
        /\ tasks[i].st \in {"connect", "rollback"}

\* the exceptions _ensure_initialized_sync raises when no session was made
EnsureErrors == {"ConnectionError", "TimeoutError", "RuntimeError"}

HasText(p) == p.type = "text" /\ p.has_text

RECURSIVE AllText(_, _)
AllText(content, sep) ==
    IF content = <<>> THEN <<>>
    ELSE IF ~HasText(Head(content)) THEN AllText(Tail(content), sep)
    ELSE IF \E k \in 1..Len(Tail(content)) : HasText(Tail(content)[k])
         THEN Head(content).text \o sep \o AllText(Tail(content), sep)
         ELSE Head(content).text

\* the parsed value of text when it parses, text itself otherwise
ParsedOrRaw(text) ==
    IF JsonLoads(text).ok THEN JsonLoads(text).value ELSE StrValue(text)

\* thread t's execute_tool call has ended on an answer of call_tool that
\* the backend did not flag as an error
AnsweredOk(t) ==
    /\ Ended(t, "execute")
    /\ ret[t].kind = "result"
    /\ ret[t].val.status_code = 200
    /\ ~loc[t].response.isError

\* C12 (as stated): for a successful backend call the output is the parsed
\* value of the concatenation of the textual parts when it parses, and the
\* concatenation itself otherwise.
C12_ParseOfConcatenation ==
    \A t \in Threads :
        AnsweredOk(t) =>
            ret[t].val.output = ParsedOrRaw(AllText(loc[t].response.content, <<>>))

\* C12 (amended): for a successful backend call the output is the parsed
\* value of the textual parts joined by newlines when that text parses, and
\* that text itself otherwise (the empty text when there is no textual
\* part); the result carries status 200 either way, and the echo of {"x": 1}
\* yields the dict {"x": 1}.
C12_ParseOfJoinedLines ==
    \A t \in Threads :
        /\ AnsweredOk(t) =>
              ret[t].val.output =
                  ParsedOrRaw(AllText(loc[t].response.content, <<"\n">>))
        /\ ( /\ Ended(t, "execute")
             /\ loc[t].response \in Responses \ {NoResponse}
             /\ ~loc[t].response.isError )
           => /\ ret[t].kind = "result"
              /\ ret[t].val.status_code = 200
        /\ (AnsweredOk(t) /\ loc[t].response.content = << TextPart(EchoText) >>)
           => ret[t].val.output = DictValue(1)

\* an answer of several parts was returned as their lines, unparsed
C12_Witness ==
    \E t \in Threads :
        /\ AnsweredOk(t)
        /\ Len(loc[t].response.content) = 4
        /\ ret[t].val.output = StrValue(<<"1", "\n", "2">>)

\* C13: when the answer of call_tool is flagged as an error by the backend
\* (isError), the execute_tool call ends with a structured error, not with a
\* success result.
C13_RemoteToolError ==
    \A t \in Threads :
        (Ended(t, "execute") /\ loc[t].response.isError) =>
            /\ ret[t].kind = "result"
            /\ ret[t].val.status_code # 200

\* the aliases of the entries of config that are valid: an initial_servers
\* entry with a command that is not empty, a remote_servers entry whose
\* value is a string
ValidAliases(cfg) ==
    { e.alias : e \in { x \in Range(cfg.initial_servers) :
                          x.has_command /\ x.command # <<>> } }
    \cup { e.alias : e \in { x \in Range(cfg.remote_servers) : x.is_str } }

\* C14: on a binding built from a configuration map, the registry holds
\* exactly the aliases of the valid entries.
C14_RegistryOfValidEntries ==
    configured => Aliases = ValidAliases(config)

\* C15: in every state of every descriptor, the session is not None exactly
\* when "initialized" is True.
C15_SessionIffInitialized ==
    \A a \in Aliases : (servers[a].session # NoSession) <=> servers[a].initialized

\* a descriptor that was ready has been reset by the rollback of an earlier
\* attempt whose caller had stopped waiting, and close() has run as well
C15_Witness ==
    \E a \in ever_ready :
        /\ ~servers[a].initialized
        /\ attempts[a] >= 2
        /\ \E t \in Threads : Ended(t, "close")

\* the sessions of alias a that a handshake has opened and initialized and
\* that nothing has closed: the open contexts of a, without those a failed
\* attempt is about to close
LiveSessions(a) ==
    { x \in open :
        /\ x[1] = a
        /\ ~\E i \in TaskIds : /\ tasks[i].kind = "init"
                               /\ tasks[i].st = "rollback"
                               /\ tasks[i].alias = a
                               /\ tasks[i].sid = x[2] }

\* C16: a descriptor never has two live sessions at the same time.
C16_OneLiveSession ==
    \A a \in Aliases : Cardinality(LiveSessions(a)) <= 1

\* the open context x = <<alias, sid>> is held by the exit stack of an attempt
\* that is still running (it will close it, or hand it to the descriptor)
HeldByAttempt(x) ==
    \E i \in TaskIds : /\ tasks[i].kind = "init"
                       /\ tasks[i].st \in {"connect", "rollback"}
                       /\ tasks[i].alias = x[1]
                       /\ tasks[i].sid = x[2]

\* the open context x is reachable through the exit_stack of its descriptor
OwnedByDescriptor(x) == servers[x[1]].exit_stack = x[2]

\* C17: every process or stream that is open is owned by its descriptor, or
\* by the attempt that opened it and has not finished; what a failed attempt
\* opened is closed when the attempt ends.
C17_NoOrphanedResource ==
    \A x \in open : OwnedByDescriptor(x) \/ HeldByAttempt(x)

\* C18: when close() returns, every connection that was opened has been
\* closed by the teardown pass, whatever was in flight when close() started.
C18_CloseClosesAll ==
    [][ \A t \in Threads :
            ( /\ pc[t] = "c_await"
              /\ pc'[t] = "done"
              /\ ret'[t].kind = "void" )
            => open' = {} ]_vars

\* what _ensure_initialized_sync gave the execute_tool call of thread t:
\* "none" when it returned, else the exception it raised (the cause in the
\* result of lines 295-297)
EnsureOutcome(t) ==
    IF loc[t].alias \in loc[t].failed THEN ret[t].val.cause ELSE "none"

\* the execute_tool call of thread t went through the lock of alias a and has
\* the outcome of _ensure_initialized_sync(a): not the RuntimeError of a loop
\* that is not running, which is raised before the lock is taken
Passed(t, a) ==
    /\ op[t].kind = "execute"
    /\ loc[t].alias = a
    /\ pc[t] \in {"x_submit", "x_await", "done"}
    /\ EnsureOutcome(t) # "RuntimeError"

\* C19: the callers of _ensure_initialized_sync for one alias whose calls
\* overlap get the same outcome: all return, or all get a connection error.
C19_SameOutcome ==
    \A a \in Aliases :
        ~sequential[a] =>
            \A t, u \in Threads :
                (Passed(t, a) /\ Passed(u, a))
                => ((EnsureOutcome(t) = "none") <=> (EnsureOutcome(u) = "none"))

\* the waits of _run_async: on the handshake, the refresh, the tool call, the
\* teardown pass
AwaitSteps == {"ens_await", "d_await", "x_await", "c_await"}

\* the wait of thread t expires in this step
Expires(t) ==
    /\ pc[t] \in AwaitSteps
    /\ pc'[t] # pc[t]
    /\ ntimeouts' = ntimeouts + 1

\* C20: when the wait of a caller expires, that caller gets the timeout
\* error (in close() on a loop another close() has stopped, the RuntimeError
\* that the "finally" clause raises while the timeout error propagates),
\* the operation it waited for stays on the loop as it was, and the other
\* callers, their operations and what they have got are left as they were.
C20_TimeoutIsolation ==
    [][ \A t \in Threads :
            Expires(t) =>
                /\ pc[t] = "ens_await" => loc[t].alias \in loc'[t].failed
                /\ pc[t] = "x_await" => ret'[t].val.cause = "TimeoutError"
                /\ pc[t] = "d_await" =>
                        ret'[t].kind = "raise" /\ ret'[t].exc = "TimeoutError"
                /\ pc[t] = "c_await" =>
                        /\ ret'[t].kind = "raise"
                        /\ ret'[t].exc = IF loop = "stopped" THEN "RuntimeError"
                                         ELSE "TimeoutError"
                /\ \E o \in Orphans : tasks[o] = NoTask /\ tasks'[o] = tasks[t]
                /\ \A u \in Threads \ {t} :
                        /\ tasks'[u] = tasks[u]
                        /\ pc'[u] = pc[u]
                        /\ ret'[u] = ret[u]
                        /\ loc'[u] = loc[u] ]_vars

\* the wait of one caller on the handshake of a has expired, the handshake
\* has succeeded afterwards, and the caller of a tool of b has its result
C20_Witness ==
    \E t, u \in Threads :
        /\ t # u
        /\ Ended(t, "execute") /\ loc[t].alias = AliasA
        /\ EnsureOutcome(t) = "TimeoutError"
        /\ attempts[AliasA] = 1 /\ servers[AliasA].initialized
        /\ Ended(u, "execute") /\ loc[u].alias = AliasB
        /\ ret[u].kind = "result" /\ ret[u].val.status_code = 200

\* the life of the one loop thread: created by the constructor, the start
\* signal, run_forever, the stop
LoopSteps ==
    { <<"created", "signalled">>, <<"signalled", "running">>,
      <<"running", "stopped">> }

\* the constructor has started a loop thread exactly when the registry is
\* not empty
StartedIffServers == (loop # "none") <=> (order # <<>>)

\* C21: a loop thread is started at construction exactly when the registry is
\* not empty, and no operation starts one again: the loop only goes forward
\* from created to stopped, also under the calls made after close().
C21_OneLoopThread ==
    [][ /\ StartedIffServers
        /\ StartedIffServers'
        /\ loop' # loop => << loop, loop' >> \in LoopSteps ]_vars

\* the one caller has called close(), the loop has stopped, and its next
\* call of discover_tools has ended
C21_Witness ==
    \E t \in Threads :
        /\ \A u \in Threads \ {t} : quota[u] = 0 /\ op[u].kind = "none"
        /\ loop = "stopped"
        /\ Ended(t, "discover")

\* the sequences of a sequence, one after the other
RECURSIVE Flatten(_)
Flatten(seqs) ==
    IF seqs = <<>> THEN <<>> ELSE Head(seqs) \o Flatten(Tail(seqs))

\* the tool lists of the aliases of ok, in registry order
CatalogOf(ok) ==
    Flatten([k \in 1..Len(order) |->
                IF order[k] \in ok THEN ServerTools(order[k]) ELSE <<>>])

\* C22: the cache is what the last refresh to end has built and nothing
\* else: the tool lists, in registry order, of the aliases whose fetch
\* succeeded in it; a fetch that fails adds nothing, and the refresh itself
\* never ends with an exception.
C22_RefreshReplacesCache ==
    /\ cache = CatalogOf(cache_ok)
    /\ \A i \in TaskIds :
          (tasks[i].kind = "refresh" /\ tasks[i].done) => tasks[i].res.exc = "none"

\* a refresh has replaced a cache that held a tool by one that does not hold
\* it, while another alias listed its tools
C22_Witness ==
    /\ cache # <<>>
    /\ \E n \in discovered : n \notin Range(cache)
    /\ \E t \in Threads : Ended(t, "discover") /\ loc[t].refreshed

\* coroutine i takes a step
Steps(i) == tasks'[i] # tasks[i]

\* C23: a session or process is closed only by a step of close() or of the
\* rollback of a failed handshake, and a descriptor is written only by a
\* step of a handshake for its alias: execute_tool and its coroutine leave the
\* session, the exit stack and the process of a ready descriptor as they are,
\* whatever the call's outcome.
C23_DispatcherKeepsConnections ==
    [][ /\ open \ open' # {} =>
              \E i \in TaskIds :
                  /\ Steps(i)
                  /\ \/ tasks[i].kind = "close" /\ tasks[i].st = "closing"
                     \/ tasks[i].kind = "init" /\ tasks[i].st = "rollback"
        /\ \A a \in Aliases :
              servers'[a] # servers[a] =>
                  \E i \in TaskIds :
                      Steps(i) /\ tasks[i].kind = "init" /\ tasks[i].alias = a
        /\ \A t \in Threads :
              (op[t].kind = "execute" /\ pc[t] \in {"x_submit", "x_await"}
                 /\ pc'[t] # pc[t])
              => (servers' = servers /\ open' = open)
        /\ \A i \in TaskIds :
              (tasks[i].kind = "exec" /\ Steps(i))
              => (servers' = servers /\ open' = open) ]_vars

\* execute_tool on a ready alias has ended with the error of a backend
\* exception or of an expired wait, and the session is still the
\* descriptor's and open
C23_Witness ==
    \E t \in Threads :
        /\ Ended(t, "execute")
        /\ loc[t].alias \in Aliases \ loc[t].failed
        /\ ret[t].val.status_code = 500
        /\ servers[loc[t].alias].initialized
        /\ << loc[t].alias, servers[loc[t].alias].session >> \in open

\* C24: every call of discover_tools, execute_tool and close returns to its
\* caller, whatever the backends do and whoever holds the locks (in runs
\* where a wait can always expire: the bound on expired waits is never met).
C24_EveryCallReturns ==
    /\ [](ntimeouts < budget)
    /\ \A t \in Threads : (pc[t] \notin {"idle", "done"}) ~> (pc[t] = "done")

\* a call has returned after two of its waits had expired, the handshake and
\* the tool call being still without an answer
C24_Witness ==
    \E t \in Threads :
        /\ Ended(t, "execute")
        /\ ntimeouts >= 2
        /\ \E i, j \in Orphans :
              /\ tasks[i].kind = "init" /\ tasks[i].st = "connect"
              /\ tasks[j].kind = "exec"

\* line 297: what classifies an error result of execute_tool is its
\* "status_code" (the "error" text is a message for the reader)
Classifier(result) == result.status_code

\* C25: an execute_tool call that ended on a wait that expired and one that
\* ended on a connection that failed do not give the same status code.
C25_TimeoutDistinctFromConnectionFailed ==
    \A t, u \in Threads :
        ( /\ Ended(t, "execute") /\ ret[t].val.cause = "TimeoutError"
          /\ Ended(u, "execute") /\ ret[u].val.cause = "ConnectionError" )
        => Classifier(ret[t].val) # Classifier(ret[u].val)

\* C26: no collision of qualified names across aliases: the names the cache
\* holds for two different aliases are different, and the split of
\* execute_tool gives back, for each name of the cache, the alias and the
\* tool name it was built from.
C26_NoNameCollision ==
    /\ \A a, b \in cache_ok :
          a # b => Range(ServerTools(a)) \cap Range(ServerTools(b)) = {}
    /\ \A a \in cache_ok : \A k \in 1..Len(ToolsOf(a)) :
          SplitOnce(TOOL_NAME_SEPARATOR, ServerTools(a)[k]) = << a, ToolsOf(a)[k] >>

\* close() has been called on a running loop: its teardown pass is submitted,
\* or the stop of the loop is posted or done
CloseCalled ==
    \/ stop_requested
    \/ loop = "stopped"
    \/ \E i \in TaskIds : tasks[i].kind = "close"

\* C27: readiness is stable: a descriptor that is ready with a session stays
\* initialized, with that session, in every step made before close() is
\* called.
C27_ReadinessStable ==
    [][ \A a \in Aliases :
            ( /\ servers[a].initialized
              /\ servers[a].session # NoSession
              /\ ~CloseCalled )
            => /\ servers'[a].initialized
               /\ servers'[a].session = servers[a].session ]_vars

\* the steps in which a foreground thread reads the state of the loop:
\* _wait_for_loop (line 136) and _run_async (line 140)
LoopReads == {"ens_wait", "d_refresh", "x_submit"}

\* C28: the start of the loop is free of races: before close() is called, a
\* thread of discover_tools or execute_tool that reads the state of the loop
\* once the start signal is set finds the loop running.
C28_LoopStartRaceFree ==
    [][ \A t \in Threads :
            ( /\ pc[t] \in LoopReads
              /\ pc'[t] # pc[t]
              /\ LoopStartedEvent
              /\ ~CloseCalled )
            => LoopRunning ]_vars

\* thread t starts an execute_tool call in this step
StartsExecute(t) ==
    /\ pc[t] \in {"idle", "done"}
    /\ quota'[t] < quota[t]
    /\ op'[t].kind = "execute"

\* C29: the name is validated before any connection work: an execute_tool
\* call whose name lacks the separator, or whose alias is no key of the
\* registry, ends in the step that starts it; that step starts no handshake,
\* submits nothing to the loop, and leaves the descriptors, the locks, the
\* open connections and the tool cache as they were.
C29_ValidationBeforeWork ==
    [][ \A t \in Threads :
            ( /\ StartsExecute(t)
              /\ \/ NoSeparatorIn(op'[t].name)
                 \/ AliasPart(op'[t].name) \notin Aliases )
            => /\ pc'[t] = "done"
               /\ tasks' = tasks
               /\ attempts' = attempts
               /\ servers' = servers
               /\ lock' = lock
               /\ open' = open
               /\ cache' = cache
               /\ call_log' = call_log ]_vars

\* on a binding with a connected server and a filled cache, a call for an
\* alias outside the registry has been refused
C29_Witness ==
    /\ \E a \in Aliases : Connected(a)
    /\ cache # <<>>
    /\ ntimeouts = 0
    /\ \A a \in Aliases : attempts[a] <= 1
    /\ \E t \in Threads : Ended(t, "execute") /\ IsUnknownServer(ret[t])

\* the loop runs the coroutine _execute_tool_async of slot i up to its await
RunsExec(i) ==
    /\ tasks[i].kind = "exec" /\ tasks[i].st = "start"
    /\ LoopRunning
    /\ tasks'[i] # tasks[i]

\* C30: call_tool is only sent on the session of a descriptor that is
\* initialized and has that session when the request is sent; when the
\* dispatcher runs on a descriptor that is not initialized or has no session
\* it sends nothing and ends with the status 503 result, which execute_tool
\* returns.
C30_CallOnReadyOnly ==
    [][ /\ \A e \in call_log' \ call_log :
              /\ servers[e.session[1]].initialized
              /\ servers[e.session[1]].session = e.session[2]
              /\ e.session[2] # NoSession
              /\ \E i \in TaskIds : RunsExec(i) /\ tasks[i].alias = e.session[1]
        /\ \A i \in TaskIds :
              ( /\ RunsExec(i)
                /\ \/ ~servers[tasks[i].alias].initialized
                   \/ servers[tasks[i].alias].session = NoSession )
              => /\ call_log' = call_log
                 /\ i \in Threads
                 /\ tasks'[i].done
                 /\ tasks'[i].res.exc = "none"
                 /\ tasks'[i].res.result.status_code = 503
        /\ \A t \in Threads :
              ( /\ pc[t] = "x_await" /\ pc'[t] = "done"
                /\ tasks[t].done
                /\ tasks[t].res.result.status_code = 503 )
              => /\ ret'[t].kind = "result"
                 /\ ret'[t].val.status_code = 503
                 /\ ret'[t].val.error = "Not connected to server" ]_vars

\* an execute_tool call has returned the status 503 result: the descriptor,
\* ready when _ensure_initialized_sync returned, had been reset by the
\* rollback of an earlier attempt when the dispatcher ran
C30_Witness ==
    \E t \in Threads :
        /\ Ended(t, "execute")
        /\ ret[t].kind = "result"
        /\ ret[t].val.status_code = 503
        /\ loc[t].alias \in ever_ready
        /\ \A e \in call_log : e.session[1] # loc[t].alias

\* ------------------------------------------------------------- specification

\* the names the callers ask for
Inputs == IF config \in ConfigsNames THEN NameInputs ELSE ExecuteInputs

Next ==
    \/ LoopSignal
    \/ LoopRun
    \/ LoopStop
    \/ \E t \in Threads, force \in BOOLEAN : StartDiscover(t, force)
    \/ \E t \in Threads, inp \in Inputs : StartExecute(t, inp[1], inp[2])
    \/ \E t \in Threads : StartClose(t)
    \/ \E t \in Threads : EnsWait(t)
    \/ \E t \in Threads : EnsLock(t)
    \/ \E t \in Threads : EnsAwait(t)
    \/ \E t \in Threads : DRefresh(t)
    \/ \E t \in Threads : DAwait(t)
    \/ \E t \in Threads : XSubmit(t)
    \/ \E t \in Threads : XAwait(t)
    \/ \E t \in Threads : CAwait(t)
    \/ \E i \in TaskIds : InitStart(i)
    \/ \E i \in TaskIds : InitConnect(i)
    \/ \E i \in TaskIds : InitRollback(i)
    \/ \E i \in TaskIds : RefreshStart(i)
    \/ \E i \in TaskIds, a \in Aliases : FetchReply(i, a)
    \/ \E i \in TaskIds : ExecStart(i)
    \/ \E i \in TaskIds : ExecReply(i)
    \/ \E i \in TaskIds : CloseStep(i)

Spec == Init /\ [][Next]_vars

SpecNames == InitNames /\ [][Next]_vars

\* a foreground thread goes on with the call it is in
ThreadStep(t) ==
    \/ EnsWait(t) \/ EnsLock(t) \/ EnsAwait(t)
    \/ DRefresh(t) \/ DAwait(t)
    \/ XSubmit(t) \/ XAwait(t)
    \/ CAwait(t)

\* the running loop starts a coroutine that was submitted to it, up to its
\* first await on a backend
LoopRunsReady ==
    \E i \in TaskIds :
        \/ InitStart(i) \/ RefreshStart(i) \/ ExecStart(i)
        \/ tasks[i].st = "start" /\ CloseStep(i)

\* threads run, and the loop runs what is ready; nothing is assumed of the
\* backends, nor of the start of the loop thread
Fairness ==
    /\ \A t \in Threads : WF_vars(ThreadStep(t))
    /\ WF_vars(LoopRunsReady)

SpecLive == InitLive /\ [][Next]_vars /\ Fairness

====
